---- MODULE Spec2Model ----
(***************************************************************************)
(* Model of fan-cli (src/src/main.c): the embedded-controller transport    *)
(* (ec_io_wait, ec_io_read, ec_io_do), the fan register adapter, the       *)
(* one-shot commands dump, set, set1, set2 and the auto-control loop       *)
(* cmd_auto.                                                               *)
(*                                                                         *)
(* The program is single-threaded; the only asynchronous event is the      *)
(* signal handler on_sigint, which sets g_stop.  The embedded controller   *)
(* is the environment: the value of its status port is an input of every   *)
(* poll, its temperature and tachometer registers change on their own, and *)
(* its two fan duty registers hold the last value byte of a completed      *)
(* 0x99 command.                                                           *)
(*                                                                         *)
(* Four specifications share the variables:                                *)
(*   Spec      main run with auto (LiveSpec adds weak fairness);           *)
(*   CmdSpec   main run with dump, set, set1 or set2;                      *)
(*   WaitSpec  one call of ec_io_wait, poll by poll;                       *)
(*   RampSpec  the cycles of cmd_auto under a constant temperature.        *)
(* In Spec and CmdSpec a wait is one step whose result is ec_io_wait(k),   *)
(* k being the first read at which the status bit matches.                 *)
(***************************************************************************)
EXTENDS Integers, Sequences, FiniteSets, TLC

(* ------------------------- program constants --------------------------- *)
EC_SC == 102
EC_DATA == 98
IBF == 1
OBF == 0
EC_SC_READ_CMD == 128
EC_FAN_CMD == 153
FAN1_PORT == 1
FAN2_PORT == 2
EC_REG_CPU_TEMP == 7
EC_REG_GPU_TEMP == 205
EC_REG_FAN1_DUTY == 206
EC_REG_FAN2_DUTY == 207
EC_REG_FAN1_RPM_HI == 208
EC_REG_FAN1_RPM_LO == 209
EC_REG_FAN2_RPM_HI == 210
EC_REG_FAN2_RPM_LO == 211
MIN_FAN_DUTY_PCT == 20
AUTO_MIN_TEMP_C == 40
AUTO_MAX_TEMP_C == 80
MIN_DEADBAND_C == 2
STEP_PCT == 2
EXIT_FAILURE == 1
MAX_POLLS == 100
RPM_CONST == 2156220
SMI_MAX_TEMP == 130

(* ------------------------------ bounds --------------------------------- *)
\* number of control cycles the loop may begin in one run
MaxCycles == 2
\* number of waits that may time out in one run
MaxTimeouts == 1
\* cycles of the loop followed under a constant temperature
MaxRamp == 52

(* --------------------- inputs from the environment --------------------- *)
\* index of the first poll at which the status bit has the expected value
FirstMatch == {0, 99, 100, 101}
\* raw duty byte fan1 holds when the program starts (0%, 20%)
InitRaw == {0, 51}
\* raw duty byte fan2 holds when the program starts
InitRaw2 == {0}
\* what the EC's CPU temperature register may hold
CpuTemps == {37, 80}
\* what the EC's GPU temperature register may hold
GpuEcTemps == {60}
\* what /sys/class/hwmon may hold: per monitor, whether its name is a GPU
\* driver's and its tempN_input readings in millidegrees
HwmonDirs ==
    { <<>>,
      <<[gpu |-> FALSE, temps |-> <<70000>>]>>,
      <<[gpu |-> TRUE,  temps |-> <<500>>]>>,
      <<[gpu |-> FALSE, temps |-> <<70000>>],
        [gpu |-> TRUE,  temps |-> <<39000, 41000, -1>>]>> }
\* what the vendor tool prints, parsed by atoi; -1 stands for no tool/output
SmiVals == {-1, 43, 130}
\* tachometer bytes
RpmHiVals == {2}
RpmLoVals == {0}
\* the constant temperatures the loop is followed under
RampTemps == 35..82
\* atoi(argv[2]) of set, set1 and set2
PctArgs == {-1, 0, 50, 101}
\* what the status port may show: bit 0 is OBF, bit 1 is IBF
StatusBytes == {0, 1, 2, 3}
\* what the data port may still hold when a read's handshake timed out
StaleBytes == {0}

(* --------------------------- pure functions ---------------------------- *)
clamp(v, lo, hi) == IF v < lo THEN lo ELSE IF v > hi THEN hi ELSE v

\* mutant: the percent truncated instead of rounded
RawToPercent_trunc(raw) == clamp((raw * 100) \div 255, 0, 100)

\* (int)((raw / 255.0) * 100.0 + 0.5), clamped to 0..100
RawToPercent(raw) == clamp((raw * 200 + 255) \div 510, 0, 100)

\* mutant: scaling by 256, so that 100% wraps to 0 in the uint8_t
PercentToRaw_wraps(pct) == ((clamp(pct, 0, 100) * 256) \div 100) % 256

\* (uint8_t)(int)(clamp(pct) / 100.0 * 255.0 + 0.5)
PercentToRaw(pct) == ((clamp(pct, 0, 100) * 510 + 100) \div 200) % 256

rpm_from_raw(hi, lo) ==
    LET raw == hi * 256 + lo
    IN  IF raw > 0 THEN RPM_CONST \div raw ELSE 0

\* mutant: switching on without the deadband
on_thr_plain == AUTO_MIN_TEMP_C

on_thr == AUTO_MIN_TEMP_C + MIN_DEADBAND_C
off_thr == AUTO_MIN_TEMP_C - MIN_DEADBAND_C

\* y0 + (y1 - y0) * ((temp_c - x0) / (x1 - x0)), then (int)(duty + 0.5)
linear_duty(temp_c) ==
    LET x0  == AUTO_MIN_TEMP_C
        y0  == MIN_FAN_DUTY_PCT
        x1  == AUTO_MAX_TEMP_C
        y1  == 100
        num == y0 * (x1 - x0) + (y1 - y0) * (temp_c - x0)
        den == x1 - x0
    IN  clamp((2 * num + den) \div (2 * den), 0, 100)

\* mutant: the curve without the hysteresis band (as map_temp_to_duty)
target_duty_no_hysteresis(temp_c, prev_pct) ==
    IF temp_c >= AUTO_MAX_TEMP_C THEN 100
    ELSE IF temp_c < AUTO_MIN_TEMP_C THEN 0
    ELSE linear_duty(temp_c)

target_duty_from_temp_hot(temp_c, prev_pct) ==
    IF temp_c >= AUTO_MAX_TEMP_C THEN 100
    ELSE IF prev_pct = 0 /\ temp_c <= on_thr THEN 0
    ELSE IF prev_pct # 0 /\ temp_c < off_thr THEN 0
    ELSE IF temp_c <= AUTO_MIN_TEMP_C THEN MIN_FAN_DUTY_PCT
    ELSE linear_duty(temp_c)

\* mutant: a full step even when the target is nearer than one step
step_toward_overshoot(last_pct, target_pct) ==
    IF target_pct > last_pct THEN last_pct + STEP_PCT
    ELSE IF target_pct < last_pct THEN last_pct - STEP_PCT
    ELSE last_pct

step_toward(last_pct, target_pct) ==
    LET delta == target_pct - last_pct
    IN  IF delta > 0
          THEN last_pct + (IF delta < STEP_PCT THEN delta ELSE STEP_PCT)
        ELSE IF delta < 0
          THEN last_pct - (IF (-delta) < STEP_PCT THEN -delta ELSE STEP_PCT)
        ELSE last_pct

\* int th = (tc > tg) ? tc : tg
hotter(c, g) == IF c > g THEN c ELSE g

\* mutant: the ramp limiter applied at every temperature
new_duty_ramped(hot, last_pct, target_pct) ==
    clamp(step_toward(last_pct, target_pct), 0, 100)

\* int newduty = (th >= AUTO_MAX_TEMP_C) ? 100 : step_toward(last, target),
\* then clamp(newduty, 0, 100)
new_duty(hot, last_pct, target_pct) ==
    clamp(IF hot >= AUTO_MAX_TEMP_C THEN 100
          ELSE step_toward(last_pct, target_pct), 0, 100)

\* mutant: the duty is written in every cycle
must_write_always(newduty_pct, last_pct) == TRUE

\* if (newduty != last)
must_write(newduty_pct, last_pct) == newduty_pct # last_pct

\* mutant: the loop condition with the negation lost
loop_cond_inverted(stop) == stop # 0

\* mutant: a loop that never looks at the flag
loop_cond_forever(stop) == TRUE

\* while (!g_stop)
loop_cond(stop) == stop = 0

\* mutant: the vendor tool's value taken without the upper limit
gpu_temp_nvidia_smi_any(t) == IF t > 0 THEN t ELSE -1

\* if (t > 0 && t < 130) return t; return -1;
gpu_temp_nvidia_smi_value(t) ==
    IF t > 0 /\ t < SMI_MAX_TEMP THEN t ELSE -1

(* ec_io_wait: the loop                                                    *)
(*   data = inb(port); i = 0;                                              *)
(*   while (bit(data) != value && i++ < 100) { usleep; data = inb(port); } *)
(*   return (i >= 100) ? -1 : 0;                                           *)
(* run against a port whose bit first has the expected value at read       *)
(* number k (counted from 0).  j is the number of the read held in data.   *)
\* mutant: one poll more than the budget
RECURSIVE wait_loop_long(_, _, _)
wait_loop_long(k, j, i) ==
    IF j # k
      THEN IF i < MAX_POLLS + 1
             THEN wait_loop_long(k, j + 1, i + 1)
             ELSE [i |-> i + 1, reads |-> j + 1, hit |-> FALSE]
      ELSE [i |-> i, reads |-> j + 1, hit |-> TRUE]

RECURSIVE wait_loop(_, _, _)
wait_loop(k, j, i) ==
    IF j # k
      THEN IF i < MAX_POLLS
             THEN wait_loop(k, j + 1, i + 1)
             ELSE [i |-> i + 1, reads |-> j + 1, hit |-> FALSE]
      ELSE [i |-> i, reads |-> j + 1, hit |-> TRUE]

ec_io_wait(k) == IF wait_loop(k, 0, 0).i >= MAX_POLLS THEN -1 ELSE 0

\* the result of one wait, by the input that decides it
WaitTable == [k \in FirstMatch |-> ec_io_wait(k)]

\* gpu_temp_sysfs: the for loop over temp1_input .. temp10_input of one
\* monitor; best is the hottest reading so far
RECURSIVE scan_temps(_, _)
scan_temps(temps, best) ==
    IF temps = <<>> THEN best
    ELSE LET milli == Head(temps)
             c     == milli \div 1000
         IN  scan_temps(Tail(temps),
                        IF milli > 0 /\ c > best THEN c ELSE best)

\* gpu_temp_sysfs: the while loop over the monitors of /sys/class/hwmon;
\* only those named nvidia, amdgpu, i915 or xe are read
RECURSIVE scan_dirs(_, _)
scan_dirs(dirs, best) ==
    IF dirs = <<>> THEN best
    ELSE scan_dirs(Tail(dirs),
                   IF Head(dirs).gpu THEN scan_temps(Head(dirs).temps, best)
                   ELSE best)

gpu_temp_sysfs_scan(dirs) == scan_dirs(dirs, -1)

(* ------------------------------- state --------------------------------- *)
VARIABLES
    pc,         \* position in main, the command it runs and dump_status
    estep,      \* position inside the ec_io_read / ec_io_do in progress
    io,         \* port events of the EC operation in progress, in order
    rv,         \* value returned by the EC operation that just finished
    hw,         \* the controller's command state: opcode and bytes received
    duty,       \* the controller's two fan duty registers (raw bytes)
    last,       \* cmd_auto: int last
    tc, tg, th, \* cmd_auto: this cycle's temperatures; dump_status: tc, tg
    target,     \* cmd_auto: int target
    newduty,    \* cmd_auto: int newduty
    hi,         \* fanN_rpm_read: int hi
    r1, r2,     \* cmd_auto: this cycle's RPM readings; dump_status: r1, r2
    d1, d2,     \* dump_status: int d1, d2
    argv1,      \* main: argv[1]
    pct,        \* main: atoi(argv[2])
    code,       \* the value main returns; -1 while it runs
    ec_hung,    \* the controller never shows the awaited flag
    w,          \* one ec_io_wait call, poll by poll
    g_stop,     \* the flag set by on_sigint
    ncyc,       \* number of cycles begun
    last0,      \* history: last at the start of the current cycle
    wlog,       \* history: duty writes issued in the current cycle
    prevFail,   \* history: fans whose duty write failed in the previous cycle
    wfail,      \* history: some duty write has timed out in this run
    rfail,      \* history: a wait of the start-up duty read timed out
    fxStop,     \* history: g_stop was set when the cycle's output was done
    wAfterStop, \* history: duty writes begun after g_stop was set
    ntmo,       \* history: number of waits that have timed out
    ctmo,       \* history: a wait has timed out in the current cycle
    gsrc        \* history: the sources consulted and what each yielded, from
                \* the call of gpu_temp until its caller goes on

vars == <<pc, estep, io, rv, hw, duty, last, tc, tg, th, target, newduty,
          hi, r1, r2, d1, d2, argv1, pct, code, ec_hung, w, g_stop, ncyc,
          last0, wlog, prevFail, wfail, rfail, fxStop, wAfterStop, ntmo,
          ctmo, gsrc>>

ecvars == <<estep, io, rv, hw, duty>>
locals == <<tc, tg, th, target, newduty, hi, r1, r2, d1, d2>>
hist   == <<last0, wlog, prevFail, wfail, rfail, fxStop, wAfterStop, ntmo,
            ctmo, gsrc>>
\* what main was started with, and the stand-alone wait
outer  == <<argv1, pct, code, ec_hung, w>>

\* estep of an EC operation that has returned
RET == 9

ReadPcs  == {"init_read", "cpu", "gpu_ec", "rpm1hi", "rpm1lo", "rpm2hi", "rpm2lo",
             "d_cpu", "d_gpu_ec", "d_duty1", "d_rpm1hi", "d_rpm1lo", "d_duty2",
             "d_rpm2hi", "d_rpm2lo"}
WritePcs == {"init_write", "write1", "write2",
             "set_write1", "set_write2", "set1_write", "set2_write"}
\* positions inside dump_status
DumpPcs  == {"d_cpu", "d_gpu_sysfs", "d_gpu_smi", "d_gpu_ec", "d_duty1",
             "d_rpm1hi", "d_rpm1lo", "d_duty2", "d_rpm2hi", "d_rpm2lo",
             "d_print"}

\* the register the read in progress addresses
ReadReg ==
    CASE pc = "init_read"             -> EC_REG_FAN1_DUTY
      [] pc \in {"cpu", "d_cpu"}       -> EC_REG_CPU_TEMP
      [] pc \in {"gpu_ec", "d_gpu_ec"} -> EC_REG_GPU_TEMP
      [] pc \in {"rpm1hi", "d_rpm1hi"} -> EC_REG_FAN1_RPM_HI
      [] pc \in {"rpm1lo", "d_rpm1lo"} -> EC_REG_FAN1_RPM_LO
      [] pc \in {"rpm2hi", "d_rpm2hi"} -> EC_REG_FAN2_RPM_HI
      [] pc = "d_duty1"                -> EC_REG_FAN1_DUTY
      [] pc = "d_duty2"                -> EC_REG_FAN2_DUTY
      [] OTHER                         -> EC_REG_FAN2_RPM_LO

\* mutant: fan2_duty_write addressing fan1
fan2_duty_write_fan1(p) ==
    [cmd |-> EC_FAN_CMD, port |-> FAN1_PORT, value |-> PercentToRaw(p)]

\* fan1_duty_write(pct) / fan2_duty_write(pct): the arguments of ec_io_do
fan1_duty_write(p) ==
    [cmd |-> EC_FAN_CMD, port |-> FAN1_PORT, value |-> PercentToRaw(p)]
fan2_duty_write(p) ==
    [cmd |-> EC_FAN_CMD, port |-> FAN2_PORT, value |-> PercentToRaw(p)]

\* the duty write in progress
WriteArgs ==
    CASE pc = "init_write" -> fan2_duty_write(last)
      [] pc = "write1"     -> fan1_duty_write(newduty)
      [] pc = "write2"     -> fan2_duty_write(newduty)
      [] pc \in {"set_write1", "set1_write"} -> fan1_duty_write(pct)
      [] OTHER             -> fan2_duty_write(pct)

(* ------------------------------ port events ---------------------------- *)
WaitEv(flag, value, r) ==
    [e |-> "wait", port |-> EC_SC, x |-> flag, v |-> value, r |-> r]
OutbEv(byte, port) ==
    [e |-> "outb", port |-> port, x |-> byte, v |-> 0, r |-> 0]
InbEv(port, byte) ==
    [e |-> "inb", port |-> port, x |-> byte, v |-> 0, r |-> 0]

(* --------------------------- the controller ---------------------------- *)
HwIdle == [cmd |-> 0, args |-> <<>>]

\* a byte written to the command port starts a command; bytes written to the
\* data port are its arguments; the second argument of the fan command sets
\* the duty register of the fan the first argument selects
HwAfterOut(h, byte, port) ==
    IF port = EC_SC THEN [cmd |-> byte, args |-> <<>>]
    ELSE IF h.cmd = EC_FAN_CMD /\ Len(h.args) = 1 THEN HwIdle
    ELSE IF h.cmd \in {EC_FAN_CMD, EC_SC_READ_CMD} /\ Len(h.args) = 0
      THEN [h EXCEPT !.args = <<byte>>]
    ELSE h

DutyAfterOut(h, d, byte, port) ==
    IF /\ port = EC_DATA
       /\ h.cmd = EC_FAN_CMD
       /\ Len(h.args) = 1
       /\ h.args[1] \in DOMAIN d
      THEN [d EXCEPT ![h.args[1]] = byte]
      ELSE d

\* what register reg may hold
RegVal(reg) ==
    CASE reg = EC_REG_FAN1_DUTY   -> {duty[FAN1_PORT]}
      [] reg = EC_REG_FAN2_DUTY   -> {duty[FAN2_PORT]}
      [] reg = EC_REG_CPU_TEMP    -> CpuTemps
      [] reg = EC_REG_GPU_TEMP    -> GpuEcTemps
      [] reg \in {EC_REG_FAN1_RPM_HI, EC_REG_FAN2_RPM_HI} -> RpmHiVals
      [] OTHER                    -> RpmLoVals

\* what a read of the data port may return: the addressed register if the
\* handshake went through, otherwise possibly a stale byte
DataPort ==
    IF /\ hw.cmd = EC_SC_READ_CMD
       /\ Len(hw.args) = 1
       /\ \A n \in 1..Len(io) : io[n].e = "wait" => io[n].r = 0
      THEN RegVal(hw.args[1])
    ELSE IF hw.cmd = EC_SC_READ_CMD /\ Len(hw.args) = 1
      THEN RegVal(hw.args[1]) \cup StaleBytes
    ELSE StaleBytes

(* ------------------------------ ec_io_read ----------------------------- *)
\* the flag each wait of ec_io_read polls for
ec_io_read_flag(step) ==
    IF step = 4 THEN [flag |-> OBF, value |-> 1] ELSE [flag |-> IBF, value |-> 0]

\* the byte each outb of ec_io_read writes, and where
ec_io_read_out(step, port) ==
    IF step = 1 THEN [byte |-> EC_SC_READ_CMD, port |-> EC_SC]
    ELSE [byte |-> port, port |-> EC_DATA]

\* mutant: a read that gives up at a timed-out wait
ec_io_read_after_wait_abort(step, r) == IF r # 0 THEN RET ELSE step + 1

\* ec_io_read ignores the result of its waits
ec_io_read_after_wait(step, r) == step + 1

ec_io_read_wait ==
    /\ pc \in ReadPcs
    /\ estep \in {0, 2, 4}
    /\ \E k \in FirstMatch :
         LET r == WaitTable[k]
             f == ec_io_read_flag(estep)
         IN  /\ IF ec_hung THEN r # 0 ELSE (r # 0 => ntmo < MaxTimeouts)
             /\ ntmo' = IF r # 0 THEN ntmo + 1 ELSE ntmo
             /\ ctmo' = (ctmo \/ r # 0)
             /\ io' = Append(io, WaitEv(f.flag, f.value, r))
             /\ estep' = ec_io_read_after_wait(estep, r)
             /\ rfail' = (rfail \/ (pc = "init_read" /\ r # 0))
    /\ UNCHANGED outer
    /\ UNCHANGED <<pc, rv, hw, duty, last, locals, g_stop, ncyc, last0,
                   wlog, prevFail, wfail, fxStop, wAfterStop, gsrc>>

ec_io_read_outb ==
    /\ pc \in ReadPcs
    /\ estep \in {1, 3}
    /\ LET o == ec_io_read_out(estep, ReadReg)
       IN  /\ io' = Append(io, OutbEv(o.byte, o.port))
           /\ hw' = HwAfterOut(hw, o.byte, o.port)
           /\ duty' = DutyAfterOut(hw, duty, o.byte, o.port)
    /\ estep' = estep + 1
    /\ UNCHANGED outer
    /\ UNCHANGED <<pc, rv, last, locals, g_stop, ncyc, hist>>

ec_io_read_inb ==
    /\ pc \in ReadPcs
    /\ estep = 5
    /\ \E b \in DataPort :
         /\ io' = Append(io, InbEv(EC_DATA, b))
         /\ rv' = b
    /\ estep' = RET
    /\ hw' = HwIdle
    /\ UNCHANGED outer
    /\ UNCHANGED <<pc, duty, last, locals, g_stop, ncyc, hist>>

(* ------------------------------- ec_io_do ------------------------------ *)
\* the byte each outb of ec_io_do writes, and where
ec_io_do_out(step, cmd, port, value) ==
    IF step = 1 THEN [byte |-> cmd, port |-> EC_SC]
    ELSE IF step = 3 THEN [byte |-> port, port |-> EC_DATA]
    ELSE [byte |-> value, port |-> EC_DATA]

\* mutant: a write that goes on after a timed-out wait
ec_io_do_after_wait_ignore(step, r) == IF step = 6 THEN RET ELSE step + 1

\* if (ec_io_wait(EC_SC, IBF, 0) != 0) return -1;  and the final
\* return ec_io_wait(EC_SC, IBF, 0);
ec_io_do_after_wait(step, r) ==
    IF step = 6 \/ r # 0 THEN RET ELSE step + 1

ec_io_do_wait ==
    /\ pc \in WritePcs
    /\ estep \in {0, 2, 4, 6}
    /\ \E k \in FirstMatch :
         LET r == WaitTable[k]
         IN  /\ IF ec_hung THEN r # 0 ELSE (r # 0 => ntmo < MaxTimeouts)
             /\ ntmo' = IF r # 0 THEN ntmo + 1 ELSE ntmo
             /\ ctmo' = (ctmo \/ r # 0)
             /\ io' = Append(io, WaitEv(IBF, 0, r))
             /\ estep' = ec_io_do_after_wait(estep, r)
             /\ rv' = r
    /\ wAfterStop' = IF estep = 0 /\ g_stop = 1 THEN wAfterStop + 1
                     ELSE wAfterStop
    /\ UNCHANGED outer
    /\ UNCHANGED <<pc, hw, duty, last, locals, g_stop, ncyc, last0,
                   wlog, prevFail, wfail, rfail, fxStop, gsrc>>

ec_io_do_outb ==
    /\ pc \in WritePcs
    /\ estep \in {1, 3, 5}
    /\ LET a == WriteArgs
           o == ec_io_do_out(estep, a.cmd, a.port, a.value)
       IN  /\ io' = Append(io, OutbEv(o.byte, o.port))
           /\ hw' = HwAfterOut(hw, o.byte, o.port)
           /\ duty' = DutyAfterOut(hw, duty, o.byte, o.port)
    /\ estep' = estep + 1
    /\ UNCHANGED outer
    /\ UNCHANGED <<pc, rv, last, locals, g_stop, ncyc, hist>>

\* the caller takes the result of the finished EC operation
EcDone == /\ estep' = 0
          /\ io' = <<>>
          /\ rv' = 0

(* ------------------------------- cmd_auto ------------------------------ *)
\* int last = clamp(fan1_duty_read(), 0, 100);
fan1_duty_read ==
    /\ pc = "init_read"
    /\ estep = RET
    /\ last' = clamp(RawToPercent(rv), 0, 100)
    /\ pc' = "init_write"
    /\ EcDone
    /\ UNCHANGED outer
    /\ UNCHANGED <<hw, duty, locals, g_stop, ncyc, hist>>

\* fan2_duty_write(last); the result is dropped
sync_fan2 ==
    /\ pc = "init_write"
    /\ estep = RET
    /\ wfail' = (wfail \/ rv # 0)
    /\ pc' = "loop"
    /\ EcDone
    /\ UNCHANGED outer
    /\ UNCHANGED <<hw, duty, last, locals, g_stop, ncyc, last0, wlog, prevFail,
                   rfail, fxStop, wAfterStop, ntmo, ctmo, gsrc>>

\* while (!g_stop): the body is entered
loop_enter ==
    /\ pc = "loop"
    /\ loop_cond(g_stop)
    /\ ncyc < MaxCycles
    /\ ncyc' = ncyc + 1
    /\ pc' = "cpu"
    /\ tc' = 0 /\ tg' = 0 /\ th' = 0 /\ target' = 0 /\ newduty' = 0
    /\ hi' = 0 /\ r1' = 0 /\ r2' = 0
    /\ last0' = last
    /\ prevFail' = {wlog[n].fan : n \in {m \in 1..Len(wlog) : wlog[m].ret # 0}}
    /\ wlog' = <<>>
    /\ fxStop' = FALSE
    /\ ctmo' = FALSE
    /\ gsrc' = <<>>
    /\ UNCHANGED outer
    /\ UNCHANGED <<ecvars, last, d1, d2, g_stop, wfail, rfail, wAfterStop,
                   ntmo>>

\* while (!g_stop): the loop is left; printf("Stopped"), return 0
loop_exit ==
    /\ pc = "loop"
    /\ ~loop_cond(g_stop)
    /\ pc' = "done"
    /\ code' = 0
    /\ UNCHANGED <<argv1, pct, ec_hung, w>>
    /\ UNCHANGED <<ecvars, last, locals, g_stop, ncyc, hist>>

\* where gpu_temp returns to
gpu_temp_return(p) == IF p \in DumpPcs THEN "d_duty1" ELSE "compute"

\* int tc = cpu_temp_ec();
cpu_temp_ec ==
    /\ pc \in {"cpu", "d_cpu"}
    /\ estep = RET
    /\ tc' = rv
    /\ pc' = IF pc = "cpu" THEN "gpu_sysfs" ELSE "d_gpu_sysfs"
    /\ EcDone
    /\ UNCHANGED outer
    /\ UNCHANGED <<hw, duty, last, tg, th, target, newduty, hi, r1, r2,
                   d1, d2, g_stop, ncyc, hist>>

\* gpu_temp: int t = gpu_temp_sysfs(); if (t > 0) return t;
gpu_temp_sysfs ==
    /\ pc \in {"gpu_sysfs", "d_gpu_sysfs"}
    /\ \E dir \in HwmonDirs :
         LET t == gpu_temp_sysfs_scan(dir)
         IN  /\ IF t > 0
                   THEN tg' = t /\ pc' = gpu_temp_return(pc)
                   ELSE tg' = tg /\ pc' = IF pc = "gpu_sysfs" THEN "gpu_smi"
                                          ELSE "d_gpu_smi"
             /\ gsrc' = <<[src |-> "sysfs", pos |-> t > 0]>>
    /\ UNCHANGED outer
    /\ UNCHANGED <<ecvars, last, tc, th, target, newduty, hi, r1, r2,
                   d1, d2, g_stop, ncyc, last0, wlog, prevFail, wfail, rfail,
                   fxStop, wAfterStop, ntmo, ctmo>>

\* gpu_temp: t = gpu_temp_nvidia_smi(); if (t > 0) return t;
gpu_temp_nvidia_smi ==
    /\ pc \in {"gpu_smi", "d_gpu_smi"}
    /\ \E out \in SmiVals :
         LET t == gpu_temp_nvidia_smi_value(out)
         IN  /\ IF t > 0
                   THEN tg' = t /\ pc' = gpu_temp_return(pc)
                   ELSE tg' = tg /\ pc' = IF pc = "gpu_smi" THEN "gpu_ec"
                                          ELSE "d_gpu_ec"
             /\ gsrc' = Append(gsrc, [src |-> "smi", pos |-> t > 0])
    /\ UNCHANGED outer
    /\ UNCHANGED <<ecvars, last, tc, th, target, newduty, hi, r1, r2,
                   d1, d2, g_stop, ncyc, last0, wlog, prevFail, wfail, rfail,
                   fxStop, wAfterStop, ntmo, ctmo>>

\* gpu_temp: return (int)ec_io_read(EC_REG_GPU_TEMP);
gpu_temp_ec ==
    /\ pc \in {"gpu_ec", "d_gpu_ec"}
    /\ estep = RET
    /\ tg' = rv
    /\ pc' = gpu_temp_return(pc)
    /\ gsrc' = Append(gsrc, [src |-> "ec", pos |-> rv > 0])
    /\ EcDone
    /\ UNCHANGED outer
    /\ UNCHANGED <<hw, duty, last, tc, th, target, newduty, hi, r1, r2,
                   d1, d2, g_stop, ncyc, last0, wlog, prevFail, wfail, rfail,
                   fxStop, wAfterStop, ntmo, ctmo>>

\* th, target, newduty and the test newduty != last
compute ==
    /\ pc = "compute"
    /\ LET h == hotter(tc, tg)
           t == target_duty_from_temp_hot(h, last)
           n == new_duty(h, last, t)
       IN  /\ th' = h
           /\ target' = t
           /\ newduty' = n
           /\ pc' = IF must_write(n, last) THEN "write1" ELSE "rpm1hi"
    /\ gsrc' = <<>>
    /\ UNCHANGED outer
    /\ UNCHANGED <<ecvars, last, tc, tg, hi, r1, r2, d1, d2, g_stop, ncyc,
                   last0, wlog, prevFail, wfail, rfail, fxStop, wAfterStop,
                   ntmo, ctmo>>

\* fan1_duty_write(newduty); the result is dropped
write_fan1 ==
    /\ pc = "write1"
    /\ estep = RET
    /\ wlog' = Append(wlog, [fan |-> WriteArgs.port, raw |-> WriteArgs.value,
                              ret |-> rv])
    /\ wfail' = (wfail \/ rv # 0)
    /\ pc' = "write2"
    /\ EcDone
    /\ UNCHANGED outer
    /\ UNCHANGED <<hw, duty, last, locals, g_stop, ncyc, last0, prevFail,
                   rfail, fxStop, wAfterStop, ntmo, ctmo, gsrc>>

\* fan2_duty_write(newduty); the result is dropped; last = newduty
write_fan2 ==
    /\ pc = "write2"
    /\ estep = RET
    /\ wlog' = Append(wlog, [fan |-> WriteArgs.port, raw |-> WriteArgs.value,
                              ret |-> rv])
    /\ wfail' = (wfail \/ rv # 0)
    /\ last' = newduty
    /\ pc' = "rpm1hi"
    /\ EcDone
    /\ UNCHANGED outer
    /\ UNCHANGED <<hw, duty, locals, g_stop, ncyc, last0, prevFail,
                   rfail, fxStop, wAfterStop, ntmo, ctmo, gsrc>>

\* fanN_rpm_read: int hi = (int)ec_io_read(EC_REG_FANN_RPM_HI);
fan_rpm_hi ==
    /\ pc \in {"rpm1hi", "rpm2hi", "d_rpm1hi", "d_rpm2hi"}
    /\ estep = RET
    /\ hi' = rv
    /\ pc' = CASE pc = "rpm1hi"   -> "rpm1lo"
               [] pc = "rpm2hi"   -> "rpm2lo"
               [] pc = "d_rpm1hi" -> "d_rpm1lo"
               [] OTHER           -> "d_rpm2lo"
    /\ EcDone
    /\ UNCHANGED outer
    /\ UNCHANGED <<hw, duty, last, tc, tg, th, target, newduty, r1, r2,
                   d1, d2, g_stop, ncyc, hist>>

\* int r1 = fan1_rpm_read();
fan1_rpm_read ==
    /\ pc \in {"rpm1lo", "d_rpm1lo"}
    /\ estep = RET
    /\ r1' = rpm_from_raw(hi, rv)
    /\ hi' = 0
    /\ pc' = IF pc = "rpm1lo" THEN "rpm2hi" ELSE "d_duty2"
    /\ EcDone
    /\ UNCHANGED outer
    /\ UNCHANGED <<hw, duty, last, tc, tg, th, target, newduty, r2,
                   d1, d2, g_stop, ncyc, hist>>

\* int r2 = fan2_rpm_read();
fan2_rpm_read ==
    /\ pc \in {"rpm2lo", "d_rpm2lo"}
    /\ estep = RET
    /\ r2' = rpm_from_raw(hi, rv)
    /\ hi' = 0
    /\ pc' = IF pc = "rpm2lo" THEN "print" ELSE "d_print"
    /\ EcDone
    /\ UNCHANGED outer
    /\ UNCHANGED <<hw, duty, last, tc, tg, th, target, newduty, r1,
                   d1, d2, g_stop, ncyc, hist>>

\* printf(status line); fflush(stdout): the last side effect of the cycle
print_status ==
    /\ pc = "print"
    /\ pc' = "sleep"
    /\ fxStop' = (g_stop = 1)
    /\ UNCHANGED outer
    /\ UNCHANGED <<ecvars, last, locals, g_stop, ncyc, last0, wlog, prevFail,
                   wfail, rfail, wAfterStop, ntmo, ctmo, gsrc>>

\* usleep(1000 * 1000); a signal may cut it short, it returns either way
sleep ==
    /\ pc = "sleep"
    /\ pc' = "loop"
    /\ UNCHANGED outer
    /\ UNCHANGED <<ecvars, last, locals, g_stop, ncyc, hist>>

\* the signal handler: g_stop = 1
on_sigint ==
    /\ pc # "done"
    /\ g_stop = 0
    /\ g_stop' = 1
    /\ UNCHANGED outer
    /\ UNCHANGED <<pc, ecvars, last, locals, ncyc, hist>>

(* ------------------- main, cmd_set*, dump_status ----------------------- *)
\* main: the strcmp chain on argv[1], after ec_init and signal
main ==
    /\ pc = "main"
    /\ pc' = CASE argv1 = "dump" -> "d_cpu"
               [] argv1 = "set"  -> "set"
               [] argv1 = "set1" -> "set1"
               [] OTHER        -> "set2"
    /\ UNCHANGED outer
    /\ UNCHANGED <<ecvars, last, locals, g_stop, ncyc, hist>>

\* if (pct < 0 || pct > 100)
bad_percent(p) == p < 0 \/ p > 100

\* cmd_set_both, cmd_set1, cmd_set2: the range check
range_check ==
    /\ pc \in {"set", "set1", "set2"}
    /\ IF bad_percent(pct)
         THEN pc' = "done" /\ code' = EXIT_FAILURE
         ELSE /\ pc' = CASE pc = "set"  -> "set_write1"
                         [] pc = "set1" -> "set1_write"
                         [] OTHER       -> "set2_write"
              /\ code' = code
    /\ UNCHANGED <<argv1, pct, ec_hung, w>>
    /\ UNCHANGED <<ecvars, last, locals, g_stop, ncyc, hist>>

\* mutant: a failed duty write is not reported
write_failed_never(r) == FALSE

\* if (fanN_duty_write(pct) != 0)
write_failed(r) == r # 0

\* where a set command goes on after a duty write that succeeded
after_set_write(p) ==
    CASE p = "set_write1" -> "set_write2"
      [] p = "set_write2" -> "set_sleep"
      [] p = "set1_write" -> "set1_sleep"
      [] OTHER            -> "set2_sleep"

\* cmd_set_both, cmd_set1, cmd_set2: a duty write has returned
set_write_done ==
    /\ pc \in {"set_write1", "set_write2", "set1_write", "set2_write"}
    /\ estep = RET
    /\ wlog' = Append(wlog, [fan |-> WriteArgs.port, raw |-> WriteArgs.value,
                              ret |-> rv])
    /\ wfail' = (wfail \/ rv # 0)
    /\ IF write_failed(rv)
         THEN pc' = "done" /\ code' = EXIT_FAILURE
         ELSE pc' = after_set_write(pc) /\ code' = code
    /\ EcDone
    /\ UNCHANGED <<argv1, pct, ec_hung, w>>
    /\ UNCHANGED <<hw, duty, last, locals, g_stop, ncyc, last0, prevFail,
                   rfail, fxStop, wAfterStop, ntmo, ctmo, gsrc>>

\* usleep(...); return dump_status();
set_sleep ==
    /\ pc \in {"set_sleep", "set1_sleep", "set2_sleep"}
    /\ pc' = "d_cpu"
    /\ UNCHANGED outer
    /\ UNCHANGED <<ecvars, last, locals, g_stop, ncyc, hist>>

\* dump_status: int d1 = fan1_duty_read();  int d2 = fan2_duty_read();
fan_duty_read ==
    /\ pc \in {"d_duty1", "d_duty2"}
    /\ estep = RET
    /\ IF pc = "d_duty1"
         THEN d1' = clamp(RawToPercent(rv), 0, 100) /\ d2' = d2
         ELSE d2' = clamp(RawToPercent(rv), 0, 100) /\ d1' = d1
    /\ pc' = IF pc = "d_duty1" THEN "d_rpm1hi" ELSE "d_rpm2hi"
    /\ gsrc' = <<>>
    /\ EcDone
    /\ UNCHANGED outer
    /\ UNCHANGED <<hw, duty, last, tc, tg, th, target, newduty, hi, r1, r2,
                   g_stop, ncyc, last0, wlog, prevFail, wfail, rfail, fxStop,
                   wAfterStop, ntmo, ctmo>>

\* dump_status: the two printf and return 0
dump_print ==
    /\ pc = "d_print"
    /\ pc' = "done"
    /\ code' = 0
    /\ UNCHANGED <<argv1, pct, ec_hung, w>>
    /\ UNCHANGED <<ecvars, last, locals, g_stop, ncyc, hist>>

(* ---------------------------- specification ---------------------------- *)
\* no wait is being followed poll by poll
WaitIdle == [pc |-> "idle", flag |-> 0, value |-> 0, data |-> 0, i |-> 0,
             reads |-> 0, sleeps |-> 0, matched |-> 0, ret |-> 0]

\* nothing has run yet
Fresh ==
    /\ estep = 0
    /\ io = <<>>
    /\ rv = 0
    /\ hw = HwIdle
    /\ tc = 0 /\ tg = 0 /\ target = 0 /\ newduty = 0
    /\ hi = 0 /\ r1 = 0 /\ r2 = 0 /\ d1 = 0 /\ d2 = 0
    /\ code = -1
    /\ g_stop = 0
    /\ ncyc = 0
    /\ last0 = 0
    /\ wlog = <<>>
    /\ prevFail = {}
    /\ wfail = FALSE
    /\ rfail = FALSE
    /\ fxStop = FALSE
    /\ wAfterStop = 0
    /\ ntmo = 0
    /\ ctmo = FALSE
    /\ gsrc = <<>>

\* the duty registers when the program starts
InitDuty ==
    /\ duty \in [{FAN1_PORT, FAN2_PORT} -> InitRaw \cup InitRaw2]
    /\ duty[FAN1_PORT] \in InitRaw
    /\ duty[FAN2_PORT] \in InitRaw2

\* main has dispatched to cmd_auto
Init ==
    /\ pc = "init_read"
    /\ argv1 = "auto"
    /\ pct = 0
    /\ ec_hung = FALSE
    /\ w = WaitIdle
    /\ InitDuty
    /\ last = 0
    /\ th = 0
    /\ Fresh

\* one step of the program
Step ==
    \/ ec_io_read_wait
    \/ ec_io_read_outb
    \/ ec_io_read_inb
    \/ ec_io_do_wait
    \/ ec_io_do_outb
    \/ fan1_duty_read
    \/ sync_fan2
    \/ loop_enter
    \/ loop_exit
    \/ cpu_temp_ec
    \/ gpu_temp_sysfs
    \/ gpu_temp_nvidia_smi
    \/ gpu_temp_ec
    \/ compute
    \/ write_fan1
    \/ write_fan2
    \/ fan_rpm_hi
    \/ fan1_rpm_read
    \/ fan2_rpm_read
    \/ print_status
    \/ sleep

Next == Step \/ on_sigint

Spec == Init /\ [][Next]_vars

\* the program keeps running: the scheduler gives it the processor
LiveSpec == Spec /\ WF_vars(Step)

\* main run with dump, set, set1 or set2
CmdInit ==
    /\ pc = "main"
    /\ argv1 \in {"dump", "set", "set1", "set2"}
    /\ pct \in IF argv1 = "dump" THEN {0} ELSE PctArgs
    /\ ec_hung \in BOOLEAN
    /\ w = WaitIdle
    /\ InitDuty
    /\ last = 0
    /\ th = 0
    /\ Fresh

CmdStep ==
    \/ main
    \/ range_check
    \/ set_write_done
    \/ set_sleep
    \/ ec_io_read_wait
    \/ ec_io_read_outb
    \/ ec_io_read_inb
    \/ ec_io_do_wait
    \/ ec_io_do_outb
    \/ cpu_temp_ec
    \/ gpu_temp_sysfs
    \/ gpu_temp_nvidia_smi
    \/ gpu_temp_ec
    \/ fan_duty_read
    \/ fan_rpm_hi
    \/ fan1_rpm_read
    \/ fan2_rpm_read
    \/ dump_print

CmdNext == CmdStep \/ on_sigint

CmdSpec == CmdInit /\ [][CmdNext]_vars

(* ----------------------- ec_io_wait, poll by poll ---------------------- *)
\* ((data >> flag) & 0x1)
flag_bit(data, flag) == (data \div (2 ^ flag)) % 2

\* return (i >= 100) ? -1 : 0;
wait_result(i) == IF i >= MAX_POLLS THEN -1 ELSE 0

\* everything but w
prog == <<pc, ecvars, last, locals, argv1, pct, code, ec_hung, g_stop, ncyc,
          hist>>

\* w with one more read of the status port, which returned b
WaitRead(b) ==
    [w EXCEPT !.data = b,
              !.reads = @ + 1,
              !.matched = IF flag_bit(b, w.flag) = w.value THEN @ + 1 ELSE @]

\* uint8_t data = inb(port); int i = 0;
wait_enter ==
    /\ w.pc = "call"
    /\ \E b \in StatusBytes : w' = [WaitRead(b) EXCEPT !.i = 0, !.pc = "test"]
    /\ UNCHANGED prog

\* while ((((data >> flag) & 0x1) != value) && (i++ < 100))
wait_test ==
    /\ w.pc = "test"
    /\ IF flag_bit(w.data, w.flag) # w.value
         THEN w' = [w EXCEPT !.i = @ + 1,
                             !.pc = IF w.i < MAX_POLLS THEN "body" ELSE "return"]
         ELSE w' = [w EXCEPT !.pc = "return"]
    /\ UNCHANGED prog

\* usleep(1000); data = inb(port);
wait_body ==
    /\ w.pc = "body"
    /\ \E b \in StatusBytes :
         w' = [WaitRead(b) EXCEPT !.sleeps = @ + 1, !.pc = "test"]
    /\ UNCHANGED prog

\* return (i >= 100) ? -1 : 0;
wait_return ==
    /\ w.pc = "return"
    /\ w' = [w EXCEPT !.ret = wait_result(w.i), !.pc = "ret"]
    /\ UNCHANGED prog

\* the two ways ec_io_read and ec_io_do call ec_io_wait
WaitCalls == {[flag |-> IBF, value |-> 0], [flag |-> OBF, value |-> 1]}

WaitInit ==
    /\ pc = "ec_io_wait"
    /\ \E c \in WaitCalls :
         w = [WaitIdle EXCEPT !.pc = "call", !.flag = c.flag,
                              !.value = c.value]
    /\ argv1 = "auto"
    /\ pct = 0
    /\ ec_hung = FALSE
    /\ InitDuty
    /\ last = 0
    /\ th = 0
    /\ Fresh

WaitNext == wait_enter \/ wait_test \/ wait_body \/ wait_return

WaitSpec == WaitInit /\ [][WaitNext]_vars

\* the loop of ec_io_wait as the operator wait_loop computes it, for the
\* first matching read the polls have seen
WaitAgrees ==
    w.pc = "ret" =>
        LET k == IF w.matched > 0 THEN w.reads - 1 ELSE MAX_POLLS + 1
        IN  /\ w.ret = ec_io_wait(k)
            /\ w.reads = wait_loop(k, 0, 0).reads
            /\ w.matched > 0 <=> wait_loop(k, 0, 0).hit
            /\ w.sleeps = w.reads - 1

(* ------------- the auto loop under a constant temperature -------------- *)
\* one cycle of cmd_auto whose sensor reads give the same hot as before:
\* target, newduty, the test newduty != last and last = newduty
ramp_cycle ==
    /\ pc = "ramp"
    /\ ncyc < MaxRamp
    /\ LET t == target_duty_from_temp_hot(th, last)
           n == new_duty(th, last, t)
       IN  /\ target' = t
           /\ newduty' = n
           /\ last' = IF must_write(n, last) THEN n ELSE last
    /\ last0' = last
    /\ ncyc' = ncyc + 1
    /\ UNCHANGED outer
    /\ UNCHANGED <<pc, ecvars, tc, tg, th, hi, r1, r2, d1, d2, g_stop, wlog,
                   prevFail, wfail, rfail, fxStop, wAfterStop, ntmo, ctmo,
                   gsrc>>

\* any duty fan1 may show at start, any temperature around the curve
RampInit ==
    /\ pc = "ramp"
    /\ last \in 0..100
    /\ th \in RampTemps
    /\ argv1 = "auto"
    /\ pct = 0
    /\ ec_hung = FALSE
    /\ w = WaitIdle
    /\ InitDuty
    /\ Fresh

RampNext == ramp_cycle

RampSpec == RampInit /\ [][RampNext]_vars

(* ------------------------------ properties ----------------------------- *)
\* positions of a cycle at which th, target and newduty have been computed
Computed == {"write1", "write2", "rpm1hi", "rpm1lo", "rpm2hi", "rpm2lo",
             "print", "sleep"}
\* positions of a cycle at which its duty writes, if any, are over
Applied  == {"rpm1hi", "rpm1lo", "rpm2hi", "rpm2lo", "print", "sleep"}

Bytes    == 0..255
Percents == 0..100
Abs(x)   == IF x < 0 THEN -x ELSE x

\* the wait events and the outb events of the operation in progress
Waits == {n \in 1..Len(io) : io[n].e = "wait"}
Outbs == {n \in 1..Len(io) : io[n].e = "outb"}

\* C1 for every temperature a byte can hold and every prior duty (a
\* property of the functions alone: it is evaluated in the initial states)
C1_AllInputs ==
    \A h \in AUTO_MAX_TEMP_C..255 : \A l \in Percents :
        new_duty(h, l, target_duty_from_temp_hot(h, l)) = 100

\* C1: in every cycle in which hot = max(cpu, gpu) is at least 80 the new
\* duty is exactly 100 and last is 100 once the cycle's writes are over,
\* whatever last was before: neither hysteresis nor the step limit applies.
C1_HotForcesFullDuty ==
    /\ Init => C1_AllInputs
    /\ (pc \in Computed /\ th >= 80) =>
          /\ newduty = 100
          /\ pc \in Applied => last = 100

\* a cycle that found 80 degrees from a cold start has put last to 100
C1_Witness ==
    /\ pc = "sleep"
    /\ th >= 80
    /\ last0 = 0
    /\ last = 100
    /\ Len(wlog) = 2

\* C2 (as claimed): a fan whose duty write timed out in one cycle gets a duty
\* write attempted again in the next cycle.
C2_RetriedNextCycle ==
    (pc \in Applied /\ ncyc >= 2) =>
        \A f \in prevFail : \E n \in 1..Len(wlog) : wlog[n].fan = f

\* C3 (as claimed): at every cycle boundary, unless a duty write has timed
\* out, both fans hold last.
C3_Orig_SyncUnlessWriteTimeout ==
    (pc = "loop" /\ ~wfail) =>
        /\ RawToPercent(duty[FAN1_PORT]) = last
        /\ RawToPercent(duty[FAN2_PORT]) = last

\* C3 (amended): at every cycle boundary, unless a duty write has timed out
\* or a wait of the start-up duty read has timed out, both fans hold last.
C3_SyncUnlessTimeout ==
    (pc = "loop" /\ ~wfail /\ ~rfail) =>
        /\ RawToPercent(duty[FAN1_PORT]) = last
        /\ RawToPercent(duty[FAN2_PORT]) = last

\* a cycle has changed the duty of both fans and no write has timed out
C3_Witness ==
    /\ pc = "loop"
    /\ ~wfail /\ ~rfail
    /\ Len(wlog) = 2
    /\ last # last0
    /\ last > 0
    /\ RawToPercent(duty[FAN2_PORT]) = last

\* C4: ec_io_do writes opcode -> status port, register -> data port, value
\* -> data port in this order, each right after a wait for IBF=0 that
\* succeeded; a wait that times out is the last thing the write does, and
\* the write reports success only after three bytes and four good waits.
C4_WriteAbortsOnTimeout ==
    pc \in WritePcs =>
        LET a    == WriteArgs
            full == <<OutbEv(a.cmd, EC_SC), OutbEv(a.port, EC_DATA),
                      OutbEv(a.value, EC_DATA)>>
        IN  /\ Len(io) <= 7
            /\ \A n \in 1..Len(io) :
                 IF n % 2 = 1
                   THEN /\ io[n].e = "wait"
                        /\ io[n].port = EC_SC /\ io[n].x = IBF /\ io[n].v = 0
                        /\ io[n].r # 0 => n = Len(io)
                   ELSE /\ io[n] = full[n \div 2]
                        /\ io[n - 1].r = 0
            /\ estep = RET =>
                 /\ io[Len(io)].e = "wait"
                 /\ rv \in {0, -1}
                 /\ rv = 0 <=> (Len(io) = 7 /\ \A n \in Waits : io[n].r = 0)
                 /\ rv = -1 <=> io[Len(io)].r # 0

\* a write gave up at its third wait, after the opcode and the register
C4_Witness ==
    /\ pc \in WritePcs
    /\ estep = RET
    /\ rv = -1
    /\ Len(io) = 5
    /\ Cardinality(Outbs) = 2

\* C5: ec_io_read has no failure result: whatever its three waits return it
\* writes the read opcode to the status port, the register to the data port
\* and reads the data port once, in this order, and returns that byte.
C5_ReadNeverFails ==
    pc \in ReadPcs =>
        LET shape == <<WaitEv(IBF, 0, 0), OutbEv(EC_SC_READ_CMD, EC_SC),
                       WaitEv(IBF, 0, 0), OutbEv(ReadReg, EC_DATA),
                       WaitEv(OBF, 1, 0), InbEv(EC_DATA, 0)>>
        IN  /\ Len(io) <= 6
            /\ \A n \in 1..Len(io) :
                 /\ io[n].e = shape[n].e
                 /\ io[n].port = shape[n].port
                 /\ io[n].e # "inb" => io[n].x = shape[n].x
                 /\ io[n].v = shape[n].v
            /\ estep = RET =>
                 /\ Len(io) = 6
                 /\ rv = io[6].x
                 /\ rv \in Bytes

\* a read went through all its steps although its first wait timed out
C5_Witness ==
    /\ pc \in ReadPcs
    /\ estep = RET
    /\ Len(io) = 6
    /\ io[1].r = -1
    /\ io[6].e = "inb"

\* C6 for every temperature below 80 and every prior duty, with the four
\* documented cases (a property of the functions alone)
C6_AllInputs ==
    /\ target_duty_from_temp_hot(41, 0) = 0
    /\ target_duty_from_temp_hot(43, 0) > 0
    /\ target_duty_from_temp_hot(39, 20) = 20
    /\ target_duty_from_temp_hot(37, 20) = 0
    /\ \A h \in 0..79 : \A p \in Percents :
         LET t == target_duty_from_temp_hot(h, p)
             n == new_duty(h, p, t)
         IN  /\ p = 0 => ((t > 0) <=> (h > 42))
             /\ (p = 0 /\ h <= 42) => n = 0
             /\ p > 0 => ((t = 0) <=> (h < 38))
             /\ (p > 0 /\ h >= 38) => n > 0

\* C6: in a cycle with hot < 80, a fan that is off stays off up to 42 degrees
\* and gets a target above 0 only above 42; a fan that is on gets target 0
\* only below 38 and keeps a duty above 0 from 38 up; so within 38..42 the
\* duty never changes between zero and non-zero.
C6_Hysteresis ==
    /\ Init => C6_AllInputs
    /\ (pc \in Computed /\ th < 80) =>
          /\ (last0 = 0 /\ th <= 42) => (target = 0 /\ newduty = 0)
          /\ (last0 = 0 /\ th > 42) => target > 0
          /\ last0 > 0 => ((target = 0) <=> (th < 38))
          /\ (last0 > 0 /\ th >= 38) => newduty > 0
          /\ th \in 38..42 => ((newduty = 0) <=> (last0 = 0))

\* inside the band a fan that was off has stayed off
C6_Witness ==
    /\ pc = "sleep"
    /\ th = 41
    /\ last0 = 0
    /\ target = 0
    /\ last = 0
    /\ wlog = <<>>

\* C7 for every pair of duties, with the documented cases (a property of
\* the function alone)
C7_AllInputs ==
    /\ step_toward(20, 100) = 22
    /\ step_toward(20, 21) = 21
    /\ \A l \in Percents : \A t \in Percents :
         LET n == step_toward(l, t)
         IN  /\ Abs(n - l) <= 2
             /\ (l <= n /\ n <= t) \/ (t <= n /\ n <= l)
             /\ (n = t) <=> (Abs(t - l) <= 2)
             /\ step_toward(l, l) = l

\* C7: in a cycle with hot < 80 the new duty is within 2 points of last,
\* lies between last and target, and is the target exactly when the target
\* is within 2 points of last.
C7_StepLimit ==
    /\ Init => C7_AllInputs
    /\ (pc \in Computed /\ th < 80) =>
          /\ Abs(newduty - last0) <= 2
          /\ \/ last0 <= newduty /\ newduty <= target
             \/ target <= newduty /\ newduty <= last0
          /\ (newduty = target) <=> (Abs(target - last0) <= 2)

\* a cycle has ramped a fan at 20% by two points towards a target of 60%
C7_Witness ==
    /\ pc = "sleep"
    /\ th = 60
    /\ last0 = 20
    /\ target = 60
    /\ newduty = 22
    /\ last = 22

C9_StopsOnlyOnSignal ==
    /\ [][(pc' = "done") => (g_stop = 1)]_vars
    /\ [][(ncyc' # ncyc) => (g_stop = 0 /\ g_stop' = 0)]_vars
    /\ [](wAfterStop <= 2)
    /\ [](pc = "done" => (estep = 0 /\ io = <<>>))
    /\ (g_stop = 1) ~> (pc = "done")

\* the loop has been left after waits timed out, with a pair of duty writes
\* made after the flag was set
C9_Witness ==
    /\ pc = "done"
    /\ ntmo > 0
    /\ wfail
    /\ ncyc >= 1
    /\ wAfterStop = 2

WritesOf(c) == IF c = "set" THEN 2 ELSE IF c = "dump" THEN 0 ELSE 1

\* C11: set, set1 and set2 return a non-zero code whenever a duty write they
\* issue times out, and reach dump_status (and code 0) only when every write
\* they issue has succeeded; after a failed fan1 write, set issues no fan2
\* write; a percent outside 0..100 returns failure with no port access at
\* all; dump returns 0 whatever the waits do.
C11_CompletionCodes ==
    /\ \A n \in 1..Len(wlog) :
         wlog[n].ret # 0 =>
           /\ n = Len(wlog)
           /\ pc = "done"
           /\ code = EXIT_FAILURE
    /\ (pc \in DumpPcs \/ (pc = "done" /\ code = 0)) =>
         /\ Len(wlog) = WritesOf(argv1)
         /\ \A n \in 1..Len(wlog) : wlog[n].ret = 0
         /\ ~bad_percent(pct)
    /\ (argv1 # "dump" /\ bad_percent(pct)) =>
         /\ pc \in {"main", "set", "set1", "set2", "done"}
         /\ estep = 0 /\ io = <<>> /\ wlog = <<>> /\ hw = HwIdle
         /\ pc = "done" => code = EXIT_FAILURE
    /\ pc = "done" => code \in {0, EXIT_FAILURE}
    /\ (pc = "done" /\ argv1 = "dump") => code = 0
    /\ (pc = "done" /\ code # 0) =>
         \/ bad_percent(pct)
         \/ Len(wlog) > 0 /\ wlog[Len(wlog)].ret # 0

\* set has returned failure after its fan1 write timed out, fan2 untouched
C11_Witness ==
    /\ pc = "done"
    /\ argv1 = "set"
    /\ code = EXIT_FAILURE
    /\ Len(wlog) = 1
    /\ wlog[1].fan = FAN1_PORT
    /\ wlog[1].ret # 0

\* dump has returned 0 although every wait of its six reads timed out
C11_HungDump ==
    /\ pc = "done"
    /\ argv1 = "dump"
    /\ ec_hung
    /\ code = 0
    /\ ntmo >= 18

\* set1 with a percent out of range has returned failure
C11_BadPercent ==
    /\ pc = "done"
    /\ argv1 = "set1"
    /\ pct = 101
    /\ code = EXIT_FAILURE

\* set has run through: both writes succeeded and dump_status returned 0
C11_SetDone ==
    /\ pc = "done"
    /\ argv1 = "set"
    /\ code = 0
    /\ Len(wlog) = 2
    /\ duty[FAN1_PORT] = PercentToRaw(pct)
    /\ duty[FAN2_PORT] = PercentToRaw(pct)
    /\ pct = 50

(* --------------------------- claims on Spec ---------------------------- *)
\* the step that leaves the loop touches neither the ports nor last
ExitIsQuiet ==
    [][(pc' = "done") =>
         /\ pc \in {"loop", "done"}
         /\ duty' = duty /\ hw' = hw /\ io' = io /\ estep' = estep
         /\ last' = last]_vars

\* C12 (as claimed): leaving the loop issues no EC write and forces no duty:
\* at termination the duty registers are those the last cycle (or the
\* start-up sync) left, and both fans hold last unless a duty write has
\* timed out.
C12_Orig_ExitLeavesDuty ==
    /\ ExitIsQuiet
    /\ [](pc = "done" => (estep = 0 /\ io = <<>>))
    /\ []((pc = "done" /\ ~wfail) =>
            /\ RawToPercent(duty[FAN1_PORT]) = last
            /\ RawToPercent(duty[FAN2_PORT]) = last)

\* C12 (amended): leaving the loop issues no EC write and forces no duty: at
\* termination the duty registers are those the last cycle (or the start-up
\* sync) left, and both fans hold last unless a duty write or a wait of the
\* start-up duty read has timed out.
C12_ExitLeavesDuty ==
    /\ ExitIsQuiet
    /\ [](pc = "done" => (estep = 0 /\ io = <<>>))
    /\ []((pc = "done" /\ ~wfail /\ ~rfail) =>
            /\ RawToPercent(duty[FAN1_PORT]) = last
            /\ RawToPercent(duty[FAN2_PORT]) = last)

\* the loop was left after a cycle that set both fans to 100%
C12_Witness ==
    /\ pc = "done"
    /\ ~wfail /\ ~rfail
    /\ ncyc >= 1
    /\ Len(wlog) = 2
    /\ last = 100
    /\ duty[FAN1_PORT] = 255 /\ duty[FAN2_PORT] = 255

\* the loop was left before its first cycle, after the start-up sync
C12_NoCycle ==
    /\ pc = "done"
    /\ ncyc = 0
    /\ ~wfail /\ ~rfail
    /\ last = 20
    /\ duty[FAN2_PORT] = 51

(* --------------------------- claims on gpu_temp ------------------------ *)
\* positions at which gpu_temp has just returned
GpuReturned == {"compute", "d_duty1"}

\* the order in which gpu_temp consults its sources
GpuOrder == <<"sysfs", "smi", "ec">>

C13_AllInputs ==
    /\ gpu_temp_sysfs_scan(<<[gpu |-> TRUE, temps |-> <<55000>>]>>) = 55
    /\ gpu_temp_sysfs_scan(<<[gpu |-> FALSE, temps |-> <<55000>>]>>) = -1
    /\ \A a, b \in {-1, 0, 999, 1000, 41000, 55000, 55999} :
         gpu_temp_sysfs_scan(<<[gpu |-> TRUE, temps |-> <<a, b>>]>>) =
           LET ca == IF a > 0 THEN a \div 1000 ELSE -1
               cb == IF b > 0 THEN b \div 1000 ELSE -1
           IN  IF ca > cb THEN ca ELSE cb
    /\ \A t \in -2..300 :
         gpu_temp_nvidia_smi_value(t) = IF 0 < t /\ t < 130 THEN t ELSE -1

\* C13: gpu_temp consults the hwmon scan, then the vendor tool, then the EC
\* register, in this order; a source is consulted only when every earlier
\* one yielded nothing above 0, and the first value above 0 is returned; the
\* vendor tool's value is returned only when strictly between 0 and 130; the
\* EC byte is returned as it is, 0 included.  A monitor showing 55000
\* millidegrees yields 55.
C13_SourceOrder ==
    /\ pc = "main" => C13_AllInputs
    /\ Len(gsrc) <= 3
    /\ \A n \in 1..Len(gsrc) :
         /\ gsrc[n].src = GpuOrder[n]
         /\ n < Len(gsrc) => ~gsrc[n].pos
    /\ pc \in {"gpu_smi", "d_gpu_smi"} => Len(gsrc) = 1
    /\ pc \in {"gpu_ec", "d_gpu_ec"} => Len(gsrc) = 2
    /\ pc \in GpuReturned =>
         /\ Len(gsrc) >= 1
         /\ LET l == gsrc[Len(gsrc)]
            IN  /\ l.src = "sysfs" =>
                     /\ l.pos /\ tg > 0
                     /\ \E dir \in HwmonDirs : tg = gpu_temp_sysfs_scan(dir)
                /\ l.src = "smi" =>
                     /\ l.pos /\ tg > 0 /\ tg < 130
                     /\ tg \in SmiVals
                /\ l.src = "ec" =>
                     /\ l.pos = (tg > 0)
                     /\ tg \in GpuEcTemps \cup StaleBytes

\* the scan found 41 degrees: gpu_temp returned it and asked no other source
C13_Witness ==
    /\ pc = "d_duty1"
    /\ tg = 41
    /\ gsrc = <<[src |-> "sysfs", pos |-> TRUE]>>

\* scan and vendor tool yielded nothing above 0; the EC byte 0 was returned
C13_EcZero ==
    /\ pc = "d_duty1"
    /\ tg = 0
    /\ Len(gsrc) = 3
    /\ ~ec_hung

\* the vendor tool's value was returned
C13_Smi ==
    /\ pc = "d_duty1"
    /\ tg = 43
    /\ Len(gsrc) = 2

(* ------------------------ claims on the transport ---------------------- *)
\* positions at which an EC operation is in progress or has just returned
EcPcs == ReadPcs \cup WritePcs

C14_AllInputs ==
    \A k \in 0..(MAX_POLLS + 3) :
        LET l == wait_loop(k, 0, 0)
        IN  /\ l.reads <= MAX_POLLS + 1
            /\ l.reads - 1 <= MAX_POLLS
            /\ ec_io_wait(k) \in {0, -1}

\* the positions of cmd_auto in program order
PcOrder == <<"init_read", "init_write", "loop", "cpu", "gpu_sysfs", "gpu_smi",
             "gpu_ec", "compute", "write1", "write2", "rpm1hi", "rpm1lo",
             "rpm2hi", "rpm2lo", "print", "sleep", "done">>

\* how far cmd_auto has come: its position, then the step of the EC
\* operation in progress
Rank(p, e) == 16 * (CHOOSE n \in 1..Len(PcOrder) : PcOrder[n] = p) + e

\* C14: no transport operation blocks for ever: a wait sleeps at most 100
\* times, ec_io_read makes exactly three waits and ec_io_do at most four;
\* every step of the program moves it forward in program order (only the
\* end of a cycle leads back, to the loop head), and inside a read, a write
\* or a cycle a next step is always possible: so every read, every write
\* and every cycle that has begun comes to its end.
C14_NoBlocking ==
    /\ [](Init => C14_AllInputs)
    /\ []((pc \in ReadPcs /\ estep = RET) => Cardinality(Waits) = 3)
    /\ [](pc \in WritePcs => Cardinality(Waits) <= 4)
    /\ [](estep \in 0..RET /\ Len(io) <= 7)
    /\ [](pc \notin {"loop", "done"} => ENABLED Step)
    /\ [][\/ Rank(pc', estep') > Rank(pc, estep)
          \/ pc = "sleep" /\ pc' = "loop"
          \/ g_stop = 0 /\ g_stop' = 1 /\ pc' = pc /\ estep' = estep]_vars

\* a duty write of a cycle has returned after its fourth wait timed out
C14_Witness ==
    /\ pc = "write2"
    /\ estep = RET
    /\ Cardinality(Waits) = 4
    /\ rv # 0
\* C16 (as claimed): ec_io_wait returns success exactly when the last value
\* it read has the selected bit equal to the expected value; it returns
\* timeout only when the bit differed on every read and the 100 attempts
\* are used up; a match on the first read returns success with no sleep.
C16_SuccessIffLastReadMatched ==
    w.pc = "ret" =>
        /\ (w.ret = 0) <=> (flag_bit(w.data, w.flag) = w.value)
        /\ w.ret # 0 => (w.matched = 0 /\ w.sleeps = MAX_POLLS)
        /\ (w.reads = 1 /\ w.matched = 1) => (w.ret = 0 /\ w.sleeps = 0)

(* ------------------------- claims on RampSpec -------------------------- *)
\* the target as C18 states it, for hot below AUTO_MAX_TEMP_C
C18_Stated(hot, prev) ==
    IF (prev = 0 /\ hot <= 42) \/ (prev > 0 /\ hot < 38) THEN 0
    ELSE IF prev > 0 /\ 38 <= hot /\ hot <= 40 THEN 20
    ELSE 2 * hot - 60

C18_AllInputs ==
    /\ target_duty_from_temp_hot(60, 20) = 60
    /\ \A hot \in 0..79, prev \in Percents :
         target_duty_from_temp_hot(hot, prev) = C18_Stated(hot, prev)
    /\ \A hot \in Bytes, prev \in Percents :
         target_duty_from_temp_hot(hot, prev) \in {0} \cup 20..100
    /\ \A h1 \in 0..100, h2 \in 0..100, prev \in {0, 1, 20, 50, 100} :
         h1 <= h2 => target_duty_from_temp_hot(h1, prev)
                       <= target_duty_from_temp_hot(h2, prev)

\* C18: below 80 degrees the target is 0 where the hysteresis holds the fan
\* off (prev = 0 and hot <= 42, or prev > 0 and hot < 38), 20 for prev > 0
\* and 38 <= hot <= 40, and 2 * hot - 60 otherwise; so it is always 0 or in
\* 20..100, and it never falls when hot rises for the same prev.
C18_TargetCurve ==
    /\ (ncyc = 0 /\ last = 0 /\ th = 35) => C18_AllInputs
    /\ (ncyc > 0 /\ th < 80) => target = C18_Stated(th, last0)
    /\ ncyc > 0 => target \in {0} \cup 20..100

\* a cycle at 60 degrees with the fan at 20% has computed the target 60
C18_Witness ==
    /\ ncyc > 0
    /\ th = 60
    /\ last0 = 20
    /\ target = 60

\* the loop has come to rest: the next cycle computes newduty = last
AtRest == new_duty(th, last, target_duty_from_temp_hot(th, last)) = last

\* C19: under a constant hot, from any last in 0..100, the loop is at rest
\* after at most 50 cycles: from then on every cycle computes newduty = last,
\* so it writes no duty; once at rest it stays at rest, and until then last
\* moves in one direction only (no oscillation).
C19_SettlesWithin50 ==
    /\ [](ncyc >= 50 => AtRest)
    /\ [](AtRest => ~must_write(last, last))
    /\ [][AtRest => (last' = last /\ AtRest')]_vars
    /\ [][(ncyc > 0 /\ last > last0) => last' >= last]_vars
    /\ [][(ncyc > 0 /\ last < last0) => last' <= last]_vars

\* the 50th cycle still changed the duty: from 100% down to 0 below 38 degrees
C19_Witness ==
    /\ ncyc = 50
    /\ th = 37
    /\ last0 = 2
    /\ last = 0
    /\ AtRest

(* ----------------------- claims on the conversions --------------------- *)
C15_AllInputs ==
    /\ \A p \in Percents :
         PercentToRaw(RawToPercent(PercentToRaw(p))) = PercentToRaw(p)
    /\ \A p \in Percents : RawToPercent(PercentToRaw(p)) = p

\* C15: for every percent in 0..100, PercentToRaw(RawToPercent(
\* PercentToRaw(pct))) = PercentToRaw(pct): a duty that was set and is read
\* back converts to the byte that was written; after a set that succeeded,
\* dump_status shows the percent that was set.
C15_RoundTrip ==
    /\ pc = "main" => C15_AllInputs
    /\ \A n \in 1..Len(wlog) :
         PercentToRaw(RawToPercent(wlog[n].raw)) = wlog[n].raw
    /\ (pc = "done" /\ code = 0 /\ argv1 \in {"set", "set1"} /\ ntmo = 0) =>
         /\ d1 = pct
         /\ PercentToRaw(d1) = duty[FAN1_PORT]
    /\ (pc = "done" /\ code = 0 /\ argv1 \in {"set", "set2"} /\ ntmo = 0) =>
         /\ d2 = pct
         /\ PercentToRaw(d2) = duty[FAN2_PORT]

\* set 50 has written the byte 128 to both fans and has read back 50%
C15_Witness ==
    /\ pc = "done"
    /\ argv1 = "set"
    /\ code = 0
    /\ ntmo = 0
    /\ pct = 50
    /\ duty[FAN1_PORT] = 128
    /\ d1 = 50 /\ d2 = 50

(* ------------------------ more claims on Spec -------------------------- *)
\* C17 (as claimed): at the end of a cycle in which hot >= 80 and no wait
\* has timed out, both fans' duty registers hold 100%, whatever happened in
\* earlier cycles.
C17_HotCycleEndsAtFull ==
    (pc = "sleep" /\ th >= AUTO_MAX_TEMP_C /\ ~ctmo) =>
        /\ duty[FAN1_PORT] = PercentToRaw(100)
        /\ duty[FAN2_PORT] = PercentToRaw(100)

\* C20 (as claimed): every duty the auto loop writes is 0 or at least
\* MIN_FAN_DUTY_PCT, also while it ramps up from 0 or down to 0.
C20_NoDutyBelowFloor ==
    /\ pc \in {"write1", "write2"} =>
         (newduty = 0 \/ newduty >= MIN_FAN_DUTY_PCT)
    /\ \A n \in 1..Len(wlog) :
         wlog[n].raw \in {PercentToRaw(p) : p \in {0} \cup MIN_FAN_DUTY_PCT..100}

====
